---- MODULE Spec2Model ----
(***************************************************************************)
(* A model of qpageview's page layout (frescobaldi_app/qpageview/layout.py):*)
(* AbstractPageLayout's list-like page collection, its parameter accessors, *)
(* the extremal-page queries, fit(), and the update pipeline with          *)
(* PageLayout's linear stacking of the pages.                              *)
(*                                                                         *)
(* A zoom factor (a Python float) is an exact fraction <<n, d>>, d > 0, in  *)
(* lowest terms; a QPointF or QSizeF is a pair; a QRect is the record of   *)
(* its corner coordinates x1, y1, x2, y2, as Qt stores it.                  *)
(***************************************************************************)
EXTENDS Integers, Sequences, FiniteSets

\* ------------------------------------------------------------------ bounds
MaxLen == 3
MaxOps == 3

\* --------------------------------------------------------------- constants
FitWidth == 1
FitHeight == 2
DefaultMargin == 4
DefaultSpacing == 8
Vertical == "Vertical"
Horizontal == "Horizontal"
None == "None"
AbstractPageLayout == "AbstractPageLayout"
PageLayout == "PageLayout"

\* The Page objects handed to the layout.  A page is known by its identity.
Pages == {"p1", "p2", "p3"}

\* page.pageSizeF(): the natural size <<width, height>>.
pageSizeF(p) ==
    CASE p = "p1" -> <<100, 200>>
      [] p = "p2" -> <<150, 150>>
      [] OTHER    -> <<100, 100>>

\* page.rotation(): the page's own rotation in quarter turns.
pageRotation(p) ==
    CASE p = "p1" -> 0
      [] p = "p2" -> 1
      [] OTHER    -> 2

\* page.scale(): the page's own scale <<x, y>>.
pageScale(p) ==
    CASE p = "p3" -> <<2, 1>>
      [] OTHER    -> <<1, 1>>

\* The values the callers of the model pass in.
Margins == {0, 4}
Spacings == {0, 8}
Zooms == {<<1, 1>>, <<1, 2>>}
Scales == {<<1, 1>>, <<2, 1>>}
Rotations == 0 .. 3
Dpis == {<<72, 72>>, <<96, 96>>}
FitSizes == {<<158, 208>>, <<58, 408>>}
FitModes == 0 .. 3
PageLists == {<<>>, <<"p1", "p2">>, <<"p3">>}
Slices == {<<0, 2>>, <<1, 2>>, <<-1, MaxLen>>}
Sizes == {<<1, 1>>, <<8, 8>>}
\* Indexes: the first, the last, a middle one, and one past every list.
Indexes == (-1 .. 1) \cup {MaxLen}
ItemIndexes == {-1, 0, 1, MaxLen}

VARIABLES
    pages,        \* self._pages: the sequence of pages
    size,         \* self._size: <<width, height>>, <<-1, -1>> for QSize()
    margin,       \* self._margin
    spacing,      \* self._spacing
    zoomFactor,   \* self._zoomFactor
    scale,        \* self._scale
    dpi,          \* self._dpi
    rotation,     \* self._rotation
    layoutClass,  \* the class of the layout: AbstractPageLayout or PageLayout
    orientation,  \* PageLayout._orientation; None where the class has none
    rect,         \* each page's rect(): [x1, y1, x2, y2]
    floatAsInt,   \* what the binding does with a float given for a C++ int
    last,         \* the last call: its name, arguments, outcome and result
    nops,         \* the number of calls made
    netInserted,  \* [pure, n]: n counts appends and inserts minus removes;
                  \* pure is false once another mutator of the collection ran
    sinceUpdate   \* what the calls made since update() last returned have
                  \* changed: "same" for nothing at all, "rects" for page
                  \* rects only, "size" for the stored size through
                  \* computeSize() (and possibly page rects), "set" for the
                  \* stored size through setSize(), "changed" for the pages
                  \* or a layout parameter; "never" while update() has not
                  \* returned yet
VARIABLE
    sinceBefore   \* sinceUpdate as it was when the last call was made

vars == <<pages, size, margin, spacing, zoomFactor, scale, dpi, rotation,
          layoutClass, orientation, rect, floatAsInt, last, nops, netInserted, sinceUpdate, sinceBefore>>

layoutParams == <<margin, spacing, zoomFactor, scale, dpi, rotation, orientation>>

\* ------------------------------------------------------------ Qt geometry
\* QSize(): an invalid size.
QSizeNull == <<-1, -1>>

\* QRect(): the null rectangle.
QRectNull == [x1 |-> 0, y1 |-> 0, x2 |-> -1, y2 |-> -1]

QRectWidth(r) == r.x2 - r.x1 + 1
QRectHeight(r) == r.y2 - r.y1 + 1
QRectIsNull(r) == r.x2 = r.x1 - 1 /\ r.y2 = r.y1 - 1
QRectSize(r) == <<QRectWidth(r), QRectHeight(r)>>

Min2(a, b) == IF a <= b THEN a ELSE b
Max2(a, b) == IF a >= b THEN a ELSE b

\* QRect::operator|: the bounding rectangle of the two; a null rectangle
\* contributes nothing, and a rectangle of negative extent counts normalized.
QRectUnited(a, b) ==
    IF QRectIsNull(a) THEN b
    ELSE IF QRectIsNull(b) THEN a
    ELSE LET l1 == IF QRectWidth(a) < 0 THEN a.x2 ELSE a.x1
             r1 == IF QRectWidth(a) < 0 THEN a.x1 ELSE a.x2
             l2 == IF QRectWidth(b) < 0 THEN b.x2 ELSE b.x1
             r2 == IF QRectWidth(b) < 0 THEN b.x1 ELSE b.x2
             t1 == IF QRectHeight(a) < 0 THEN a.y2 ELSE a.y1
             b1 == IF QRectHeight(a) < 0 THEN a.y1 ELSE a.y2
             t2 == IF QRectHeight(b) < 0 THEN b.y2 ELSE b.y1
             b2 == IF QRectHeight(b) < 0 THEN b.y1 ELSE b.y2
         IN [x1 |-> Min2(l1, l2), y1 |-> Min2(t1, t2),
             x2 |-> Max2(r1, r2), y2 |-> Max2(b1, b2)]

\* QRect::adjusted(dx1, dy1, dx2, dy2).
QRectAdjusted(r, dx1, dy1, dx2, dy2) ==
    [x1 |-> r.x1 + dx1, y1 |-> r.y1 + dy1, x2 |-> r.x2 + dx2, y2 |-> r.y2 + dy2]

\* QRect::moveTopLeft(point): the size is kept.
QRectMoveTopLeft(r, x, y) ==
    [x1 |-> x, y1 |-> y, x2 |-> x + (r.x2 - r.x1), y2 |-> y + (r.y2 - r.y1)]

\* QRect::setSize(size): the top left corner is kept.
QRectSetSize(r, s) ==
    [x1 |-> r.x1, y1 |-> r.y1, x2 |-> r.x1 + s[1] - 1, y2 |-> r.y1 + s[2] - 1]

\* ------------------------------------------------------------- fractions
RECURSIVE Gcd(_, _)
Gcd(a, b) == IF b = 0 THEN a ELSE Gcd(b, a % b)

Abs(a) == IF a < 0 THEN -a ELSE a

\* The fraction n/d (d > 0) in lowest terms.
Frac(n, d) ==
    LET g == Gcd(Abs(n), d)
    IN IF g = 0 THEN <<0, 1>> ELSE <<n \div g, d \div g>>

FracLess(a, b) == a[1] * b[2] < b[1] * a[2]

\* ------------------------------------------------------------------ state
Init ==
    /\ pages = <<>>
    /\ size = QSizeNull
    /\ margin = DefaultMargin
    /\ spacing = DefaultSpacing
    /\ zoomFactor = <<1, 1>>
    /\ scale = <<1, 1>>
    /\ dpi = <<72, 72>>
    /\ rotation = 0
    /\ layoutClass \in {AbstractPageLayout, PageLayout}
    /\ orientation = IF layoutClass = PageLayout THEN Vertical ELSE None
    /\ rect = [p \in Pages |-> QRectNull]
    /\ floatAsInt \in {"truncate", "TypeError"}
    /\ last = [op |-> "__init__", ok |-> TRUE, args |-> <<>>, ret |-> None]
    /\ nops = 0
    /\ netInserted = [pure |-> TRUE, n |-> 0]
    /\ sinceUpdate = "never"
    /\ sinceBefore = "never"

\* A call that returned `ret`, and one that raised `exc`.
Returned(op, args, ret) == [op |-> op, ok |-> TRUE, args |-> args, ret |-> ret]
Raised(op, args, exc) == [op |-> op, ok |-> FALSE, args |-> args, ret |-> exc]

Called == nops < MaxOps /\ nops' = nops + 1

\* The history of the call just made: what has changed since update() last
\* returned. Whatever the call, a change of the pages or of a layout parameter
\* counts first, then one of the stored size by setSize(), then one of the
\* stored size by computeSize(), then one of a page's rect (updatePageSizes(),
\* either updatePagePositions(), an update() that raised).
Track ==
    /\ sinceBefore' = sinceUpdate
    /\ sinceUpdate' =
           IF last'.op = "update" /\ last'.ok THEN "same"
           ELSE IF sinceUpdate = "never" THEN "never"
           ELSE IF sinceUpdate = "changed" \/ pages' # pages \/ layoutParams' # layoutParams
                THEN "changed"
           ELSE IF sinceUpdate = "set" \/ (last'.op = "setSize" /\ size' # size)
                THEN "set"
           ELSE IF sinceUpdate = "size" \/ size' # size THEN "size"
           ELSE IF sinceUpdate = "rects" \/ rect' # rect THEN "rects"
           ELSE "same"

\* --------------------------------------------------- Python's list methods
\* list.insert(i, x): a negative index counts from the end, and the index is
\* then clamped to 0 .. len.
ListInsertIndex(s, i) ==
    LET j == IF i < 0 THEN i + Len(s) ELSE i
    IN IF j < 0 THEN 0 ELSE IF j > Len(s) THEN Len(s) ELSE j

ListInsert(s, i, x) ==
    LET k == ListInsertIndex(s, i)
    IN SubSeq(s, 1, k) \o <<x>> \o SubSeq(s, k + 1, Len(s))

\* ListFind finding the last element equal to x.
RECURSIVE ListFindLast(_, _, _)
ListFindLast(s, x, from) ==
    IF from >= Len(s) THEN -1
    ELSE IF s[Len(s) - from] = x THEN Len(s) - from - 1
    ELSE ListFindLast(s, x, from + 1)

\* The 0-based index of the first element equal to x, -1 when there is none.
RECURSIVE ListFind(_, _, _)
ListFind(s, x, from) ==
    IF from >= Len(s) THEN -1
    ELSE IF s[from + 1] = x THEN from
    ELSE ListFind(s, x, from + 1)

\* The list without its element at the 0-based index k.
ListDelete(s, k) == SubSeq(s, 1, k) \o SubSeq(s, k + 2, Len(s))

\* list.pop(i) and del list[i]: the index meant, -1 when it is out of range.
ListIndex(s, i) ==
    LET j == IF i < 0 THEN i + Len(s) ELSE i
    IN IF j < 0 \/ j >= Len(s) THEN -1 ELSE j

\* The count of net inserts after d more, and after another mutator.
Counted(d) == IF netInserted.pure THEN [netInserted EXCEPT !.n = @ + d] ELSE netInserted
Tainted == [pure |-> FALSE, n |-> 0]

\* ------------------------------------------------------ the page collection
layoutGeometry == <<size, rect>>

append(page) ==
    /\ Called
    /\ Len(pages) < MaxLen
    /\ pages' = Append(pages, page)
    /\ netInserted' = Counted(1)
    /\ last' = Returned("append", <<page>>, None)
    /\ UNCHANGED <<layoutParams, layoutGeometry, floatAsInt, layoutClass>>
    /\ Track

insert(position, page) ==
    /\ Called
    /\ Len(pages) < MaxLen
    /\ pages' = ListInsert(pages, position, page)
    /\ netInserted' = Counted(1)
    /\ last' = Returned("insert", <<position, page>>, None)
    /\ UNCHANGED <<layoutParams, layoutGeometry, floatAsInt, layoutClass>>
    /\ Track

remove(page) ==
    /\ Called
    /\ LET k == ListFind(pages, page, 0)
       IN IF k < 0
          THEN /\ last' = Raised("remove", <<page>>, "ValueError")
               /\ UNCHANGED <<pages, netInserted>>
          ELSE /\ pages' = ListDelete(pages, k)
               /\ netInserted' = Counted(-1)
               /\ last' = Returned("remove", <<page>>, None)
    /\ UNCHANGED <<layoutParams, layoutGeometry, floatAsInt, layoutClass>>
    /\ Track

\* pop(*args): args is <<index>>, or <<>> when the caller gives no index and
\* index is its default, None, which list.pop refuses.
pop(args) ==
    /\ Called
    /\ IF args = <<>>
       THEN /\ last' = Raised("pop", args, "TypeError")
            /\ UNCHANGED <<pages, netInserted>>
       ELSE LET k == ListIndex(pages, args[1])
            IN IF k < 0
               THEN /\ last' = Raised("pop", args, "IndexError")
                    /\ UNCHANGED <<pages, netInserted>>
               ELSE /\ pages' = ListDelete(pages, k)
                    /\ netInserted' = Tainted
                    /\ last' = Returned("pop", args, pages[k + 1])
    /\ UNCHANGED <<layoutParams, layoutGeometry, floatAsInt, layoutClass>>
    /\ Track

clear ==
    /\ Called
    /\ pages' = <<>>
    /\ netInserted' = Tainted
    /\ last' = Returned("clear", <<>>, None)
    /\ UNCHANGED <<layoutParams, layoutGeometry, floatAsInt, layoutClass>>
    /\ Track

\* extend(pages): append(page) for each page of the iterable, in order.
extend(ps) ==
    /\ Called
    /\ Len(pages) + Len(ps) <= MaxLen
    /\ pages' = pages \o ps
    /\ netInserted' = Counted(Len(ps))
    /\ last' = Returned("extend", <<ps>>, None)
    /\ UNCHANGED <<layoutParams, layoutGeometry, floatAsInt, layoutClass>>
    /\ Track

\* A slice [start:stop] of a list of length n: both ends count from the end
\* when negative, are clamped to 0 .. n, and stop is at least start.
SliceStart(n, start) ==
    LET a == IF start < 0 THEN start + n ELSE start
    IN IF a < 0 THEN 0 ELSE IF a > n THEN n ELSE a

SliceStop(n, start, stop) ==
    LET b == IF stop < 0 THEN stop + n ELSE stop
        c == IF b < 0 THEN 0 ELSE IF b > n THEN n ELSE b
    IN IF c < SliceStart(n, start) THEN SliceStart(n, start) ELSE c

\* list[start:stop] = new (and del list[start:stop] with new empty).
ListSetSlice(s, start, stop, new) ==
    SubSeq(s, 1, SliceStart(Len(s), start)) \o new
        \o SubSeq(s, SliceStop(Len(s), start, stop) + 1, Len(s))

\* del layout[item]: item is <<index>> or the slice <<start, stop>>.
delitem(item) ==
    /\ Called
    /\ IF Len(item) = 2
       THEN /\ pages' = ListSetSlice(pages, item[1], item[2], <<>>)
            /\ netInserted' = Tainted
            /\ last' = Returned("__delitem__", item, None)
       ELSE LET k == ListIndex(pages, item[1])
            IN IF k < 0
               THEN /\ last' = Raised("__delitem__", item, "IndexError")
                    /\ UNCHANGED <<pages, netInserted>>
               ELSE /\ pages' = ListDelete(pages, k)
                    /\ netInserted' = Tainted
                    /\ last' = Returned("__delitem__", item, None)
    /\ UNCHANGED <<layoutParams, layoutGeometry, floatAsInt, layoutClass>>
    /\ Track

\* layout[item] = new: item is <<index>> and new a page, or item is the slice
\* <<start, stop>> and new a list of pages.
setitem(item, new) ==
    /\ Called
    /\ IF Len(item) = 2
       THEN /\ Len(ListSetSlice(pages, item[1], item[2], new)) <= MaxLen
            /\ pages' = ListSetSlice(pages, item[1], item[2], new)
            /\ netInserted' = Tainted
            /\ last' = Returned("__setitem__", <<item, new>>, None)
       ELSE LET k == ListIndex(pages, item[1])
            IN IF k < 0
               THEN /\ last' = Raised("__setitem__", <<item, new>>, "IndexError")
                    /\ UNCHANGED <<pages, netInserted>>
               ELSE /\ pages' = [pages EXCEPT ![k + 1] = new]
                    /\ netInserted' = Tainted
                    /\ last' = Returned("__setitem__", <<item, new>>, None)
    /\ UNCHANGED <<layoutParams, layoutGeometry, floatAsInt, layoutClass>>
    /\ Track

\* ------------------------------------------------- the layout parameters
layoutRest == <<pages, netInserted, layoutGeometry, floatAsInt, layoutClass>>

setMargin(m) ==
    /\ Called
    /\ margin' = m
    /\ last' = Returned("setMargin", <<m>>, None)
    /\ UNCHANGED <<spacing, zoomFactor, scale, dpi, rotation, orientation, layoutRest>>
    /\ Track

setSpacing(sp) ==
    /\ Called
    /\ spacing' = sp
    /\ last' = Returned("setSpacing", <<sp>>, None)
    /\ UNCHANGED <<margin, zoomFactor, scale, dpi, rotation, orientation, layoutRest>>
    /\ Track

\* setDpi(dpi): the body reads the names xdpi and ydpi, which nothing defines.
setDpi(d) ==
    /\ Called
    /\ last' = Raised("setDpi", <<d>>, "NameError")
    /\ UNCHANGED <<layoutParams, layoutRest>>
    /\ Track

setZoomFactor(zoom) ==
    /\ Called
    /\ zoomFactor' = zoom
    /\ last' = Returned("setZoomFactor", <<zoom>>, None)
    /\ UNCHANGED <<margin, spacing, scale, dpi, rotation, orientation, layoutRest>>
    /\ Track

setScale(sc) ==
    /\ Called
    /\ scale' = sc
    /\ last' = Returned("setScale", <<sc>>, None)
    /\ UNCHANGED <<margin, spacing, zoomFactor, dpi, rotation, orientation, layoutRest>>
    /\ Track

setRotation(r) ==
    /\ Called
    /\ rotation' = r
    /\ last' = Returned("setRotation", <<r>>, None)
    /\ UNCHANGED <<margin, spacing, zoomFactor, scale, dpi, orientation, layoutRest>>
    /\ Track

\* setOrientation(orientation): a method of PageLayout only.
setOrientation(o) ==
    /\ Called
    /\ IF layoutClass = PageLayout
       THEN /\ orientation' = o
            /\ last' = Returned("setOrientation", <<o>>, None)
       ELSE /\ last' = Raised("setOrientation", <<o>>, "AttributeError")
            /\ UNCHANGED orientation
    /\ UNCHANGED <<margin, spacing, zoomFactor, scale, dpi, rotation, layoutRest>>
    /\ Track

\* setSize(size): the stored size, whatever the pages are.
setSize(sz) ==
    /\ Called
    /\ size' = sz
    /\ last' = Returned("setSize", <<sz>>, None)
    /\ UNCHANGED <<layoutParams, pages, netInserted, rect, floatAsInt, layoutClass>>
    /\ Track

\* --------------------------------------------------------------- the pages
\* Whether the page lies on its side in the layout: (r + R) & 1.
Sideways(p) == (pageRotation(p) + rotation) % 2 = 1

\* The page's natural extent along the layout's x and y axis, with the page's
\* own scale, in that order.
pageExtent(p) ==
    IF Sideways(p)
    THEN <<pageSizeF(p)[2] * pageScale(p)[2], pageSizeF(p)[1] * pageScale(p)[1]>>
    ELSE <<pageSizeF(p)[1] * pageScale(p)[1], pageSizeF(p)[2] * pageScale(p)[2]>>

\* page.computeSize(layout): the natural extent in the layout's scale, dpi and
\* zoom, in whole pixels.
pageComputeSize(p) ==
    <<(pageExtent(p)[1] * scale[1] * dpi[1] * zoomFactor[1]) \div (72 * zoomFactor[2]),
      (pageExtent(p)[2] * scale[2] * dpi[2] * zoomFactor[1]) \div (72 * zoomFactor[2])>>

\* page.zoomForWidth(layout, width): the zoom at which computeSize gives width.
zoomForWidth(p, width) == Frac(width * 72, pageExtent(p)[1] * scale[1] * dpi[1])

\* page.zoomForHeight(layout, height).
zoomForHeight(p, height) == Frac(height * 72, pageExtent(p)[2] * scale[2] * dpi[2])

\* ------------------------------------------------ the extremal-page queries
\* max(iterable, key=key): the first element with the largest key; keys[i] is
\* the key of s[i].  `best` is the index of the best element so far.
RECURSIVE PyMaxIndex(_, _, _)
PyMaxIndex(keys, i, best) ==
    IF i > Len(keys) THEN best
    ELSE PyMaxIndex(keys, i + 1, IF keys[i] > keys[best] THEN i ELSE best)

\* widestKey without the rotation.
widestKeyUnrotated(p) == pageSizeF(p)[1] * pageScale(p)[1]

\* key(page) of widestPage().
widestKey(p) ==
    IF (pageRotation(p) + rotation) % 2 = 1
    THEN pageSizeF(p)[2] * pageScale(p)[2]
    ELSE pageSizeF(p)[1] * pageScale(p)[1]

\* key(page) of highestPage().
highestKey(p) ==
    IF (pageRotation(p) + rotation) % 2 = 1
    THEN pageSizeF(p)[1] * pageScale(p)[1]
    ELSE pageSizeF(p)[2] * pageScale(p)[2]

widestPage ==
    IF Len(pages) = 0 THEN None
    ELSE pages[PyMaxIndex([i \in 1 .. Len(pages) |-> widestKey(pages[i])], 2, 1)]

highestPage ==
    IF Len(pages) = 0 THEN None
    ELSE pages[PyMaxIndex([i \in 1 .. Len(pages) |-> highestKey(pages[i])], 2, 1)]

callWidestPage ==
    /\ Called
    /\ last' = Returned("widestPage", <<>>, widestPage)
    /\ UNCHANGED <<layoutParams, layoutRest>>
    /\ Track

callHighestPage ==
    /\ Called
    /\ last' = Returned("highestPage", <<>>, highestPage)
    /\ UNCHANGED <<layoutParams, layoutRest>>
    /\ Track

\* ---------------------------------------------------------------- fit()
zoomFitWidth(width) == zoomForWidth(widestPage, width - margin * 2)

zoomFitHeight(height) == zoomForHeight(highestPage, height - margin * 2)

\* min(zoomfactors): the first smallest element of a non-empty list.
RECURSIVE PyMinFrac(_, _, _)
PyMinFrac(s, i, best) ==
    IF i > Len(s) THEN best
    ELSE PyMinFrac(s, i + 1, IF FracLess(s[i], best) THEN s[i] ELSE best)

\* fitZoomFactor taking the last factor asked for instead of the smallest.
fitZoomFactorLast(sz, mode) ==
    IF mode # 0 /\ Len(pages) > 0
    THEN IF (mode \div FitHeight) % 2 = 1 THEN zoomFitHeight(sz[2])
         ELSE zoomFitWidth(sz[1])
    ELSE zoomFactor

\* The zoom factor the layout has after fit(size, mode).
fitZoomFactor(sz, mode) ==
    IF mode # 0 /\ Len(pages) > 0
    THEN LET zw == IF (mode \div FitWidth) % 2 = 1 THEN <<zoomFitWidth(sz[1])>> ELSE <<>>
             zh == IF (mode \div FitHeight) % 2 = 1 THEN <<zoomFitHeight(sz[2])>> ELSE <<>>
             zoomfactors == zw \o zh
         IN PyMinFrac(zoomfactors, 2, zoomfactors[1])
    ELSE zoomFactor

fit(sz, mode) ==
    /\ Called
    /\ zoomFactor' = fitZoomFactor(sz, mode)
    /\ last' = Returned("fit", <<sz, mode>>, None)
    /\ UNCHANGED <<margin, spacing, scale, dpi, rotation, orientation, layoutRest>>
    /\ Track

\* ------------------------------------------------------ the update pipeline
\* updatePageSizes(): page.computeSize(self) for every page of the collection.
updatePageSizes(rects) ==
    [p \in Pages |->
        IF \E i \in 1 .. Len(pages) : pages[i] = p
        THEN QRectSetSize(rects[p], pageComputeSize(p))
        ELSE rects[p]]

\* max((p.width() for p in self), default=0), and the same of the heights.
RECURSIVE PyMaxInt(_, _, _)
PyMaxInt(s, i, best) ==
    IF i > Len(s) THEN best
    ELSE PyMaxInt(s, i + 1, IF s[i] > best THEN s[i] ELSE best)

maxPageWidth(rects) ==
    IF Len(pages) = 0 THEN 0
    ELSE LET ws == [i \in 1 .. Len(pages) |-> QRectWidth(rects[pages[i]])]
         IN PyMaxInt(ws, 2, ws[1])

maxPageHeight(rects) ==
    IF Len(pages) = 0 THEN 0
    ELSE LET hs == [i \in 1 .. Len(pages) |-> QRectHeight(rects[pages[i]])]
         IN PyMaxInt(hs, 2, hs[1])

\* a / 2 in Python 3 is a float: the exact half, kept as the fraction <<a, 2>>.
TrueDiv2(a) == <<a, 2>>

\* A float given for an int of QPoint(int, int), where the binding converts it
\* (int(x), which drops the fraction towards zero).
QPointCoord(f) ==
    IF f[1] >= 0 THEN f[1] \div f[2] ELSE -((-f[1]) \div f[2])

\* stackAdvance without the spacing, and without the page's extent.
stackAdvanceNoSpacing(cursor, extent) == cursor + extent
stackAdvanceNoExtent(cursor, extent) == cursor + spacing

\* The cursor after a page of the given extent along the stacking axis:
\* top += page.height() + self._spacing.
stackAdvance(cursor, extent) == cursor + extent + spacing

\* The offset that centers a page across the stacking axis:
\* (width - page.width()) / 2, given to QPoint.
centered(extent, pageExtentAcross) == QPointCoord(TrueDiv2(extent - pageExtentAcross))

\* PageLayout.updatePagePositions(), Vertical: the pages from index i on, with
\* the cursor at top.
RECURSIVE placeVertical(_, _, _, _)
placeVertical(rects, i, width, top) ==
    IF i > Len(pages) THEN rects
    ELSE LET page == pages[i]
             x == centered(width, QRectWidth(rects[page]))
             moved == [rects EXCEPT ![page] = QRectMoveTopLeft(@, x, top)]
         IN placeVertical(moved, i + 1, width,
                          stackAdvance(top, QRectHeight(moved[page])))

\* PageLayout.updatePagePositions(), Horizontal.
RECURSIVE placeHorizontal(_, _, _, _)
placeHorizontal(rects, i, height, left) ==
    IF i > Len(pages) THEN rects
    ELSE LET page == pages[i]
             y == centered(height, QRectHeight(rects[page]))
             moved == [rects EXCEPT ![page] = QRectMoveTopLeft(@, left, y)]
         IN placeHorizontal(moved, i + 1, height,
                            stackAdvance(left, QRectWidth(moved[page])))

\* PageLayout.updatePagePositions() where it returns.
PageLayoutUpdatePagePositions(rects) ==
    IF orientation = Vertical
    THEN placeVertical(rects, 1, maxPageWidth(rects) + margin * 2, margin)
    ELSE placeHorizontal(rects, 1, maxPageHeight(rects) + margin * 2, margin)

\* AbstractPageLayout.updatePagePositions(): the pages from index i on are put
\* at QPoint(margin, top), one below the other.
RECURSIVE placeStacked(_, _, _)
placeStacked(rects, i, top) ==
    IF i > Len(pages) THEN rects
    ELSE LET page == pages[i]
             moved == [rects EXCEPT ![page] = QRectMoveTopLeft(@, margin, top)]
         IN placeStacked(moved, i + 1, top + QRectHeight(moved[page]) + spacing)

AbstractUpdatePagePositions(rects) == placeStacked(rects, 1, margin)

\* self.updatePagePositions() where it returns: the method of the layout's
\* class.
updatePagePositions(rects) ==
    IF layoutClass = PageLayout
    THEN PageLayoutUpdatePagePositions(rects)
    ELSE AbstractUpdatePagePositions(rects)

\* Whether self.updatePagePositions() raises: PageLayout gives QPoint a float
\* for the first page, and the binding may refuse a float for an int.
positionsRaise ==
    layoutClass = PageLayout /\ Len(pages) > 0 /\ floatAsInt = "TypeError"

\* r |= page.rect() for the pages from index i on.
RECURSIVE unitedFrom(_, _, _)
unitedFrom(rects, i, r) ==
    IF i > Len(pages) THEN r
    ELSE unitedFrom(rects, i + 1, QRectUnited(r, rects[pages[i]]))

\* computedSize without the margin.
computedSizeNoMargin(rects) == QRectSize(unitedFrom(rects, 1, QRectNull))

\* The size computeSize() computes.
computedSize(rects) ==
    LET r == unitedFrom(rects, 1, QRectNull)
        m == margin
    IN QRectSize(QRectAdjusted(r, -m, -m, m, m))

\* sizeChanged taken after the new size is stored.
sizeChangedAfterStore(old, new) == new # new

\* changed = self._size != size, taken before the new size is stored.
sizeChanged(old, new) == old # new

computeSize ==
    /\ Called
    /\ size' = computedSize(rect)
    /\ last' = Returned("computeSize", <<>>, sizeChanged(size, size'))
    /\ UNCHANGED <<layoutParams, pages, netInserted, rect, floatAsInt, layoutClass>>
    /\ Track

update ==
    /\ Called
    /\ LET sized == updatePageSizes(rect)
       IN IF positionsRaise
          THEN /\ rect' = sized
               /\ last' = Raised("update", <<>>, "TypeError")
               /\ UNCHANGED size
          ELSE /\ rect' = updatePagePositions(sized)
               /\ size' = computedSize(rect')
               /\ last' = Returned("update", <<>>, sizeChanged(size, size'))
    /\ UNCHANGED <<layoutParams, pages, netInserted, floatAsInt, layoutClass>>
    /\ Track

\* updatePageSizes() called alone.
callUpdatePageSizes ==
    /\ Called
    /\ rect' = updatePageSizes(rect)
    /\ last' = Returned("updatePageSizes", <<>>, None)
    /\ UNCHANGED <<layoutParams, pages, netInserted, size, floatAsInt, layoutClass>>
    /\ Track

\* updatePagePositions() called alone: QPoint raises before any page is moved.
callUpdatePagePositions ==
    /\ Called
    /\ IF positionsRaise
       THEN /\ last' = Raised("updatePagePositions", <<>>, "TypeError")
            /\ UNCHANGED rect
       ELSE /\ rect' = updatePagePositions(rect)
            /\ last' = Returned("updatePagePositions", <<>>, None)
    /\ UNCHANGED <<layoutParams, pages, netInserted, size, floatAsInt, layoutClass>>
    /\ Track

\* AbstractPageLayout.updatePagePositions(layout): the base class's method
\* called on a layout of either class; it gives QPoint ints only.
callAbstractUpdatePagePositions ==
    /\ Called
    /\ rect' = AbstractUpdatePagePositions(rect)
    /\ last' = Returned("AbstractPageLayout.updatePagePositions", <<>>, None)
    /\ UNCHANGED <<layoutParams, pages, netInserted, size, floatAsInt, layoutClass>>
    /\ Track

CollectionNext ==
    \/ \E p \in Pages : append(p)
    \/ \E p \in Pages : \E i \in Indexes : insert(i, p)
    \/ \E p \in Pages : remove(p)
    \/ \E i \in Indexes : pop(<<i>>)
    \/ pop(<<>>)
    \/ clear
    \/ \E ps \in PageLists : extend(ps)
    \/ \E i \in ItemIndexes : delitem(<<i>>)
    \/ \E sl \in Slices : delitem(sl)
    \/ \E i \in ItemIndexes : \E p \in Pages : setitem(<<i>>, p)
    \/ \E sl \in Slices : \E ps \in PageLists : setitem(sl, ps)

ParameterNext ==
    \/ \E m \in Margins : setMargin(m)
    \/ \E sp \in Spacings : setSpacing(sp)
    \/ \E d \in Dpis : setDpi(d)
    \/ \E z \in Zooms : setZoomFactor(z)
    \/ \E sc \in Scales : setScale(sc)
    \/ \E r \in Rotations : setRotation(r)
    \/ \E o \in {Vertical, Horizontal} : setOrientation(o)

FitNext ==
    \/ callWidestPage
    \/ callHighestPage
    \/ \E sz \in FitSizes : \E mode \in FitModes : fit(sz, mode)

UpdateNext ==
    \/ update
    \/ computeSize
    \/ callUpdatePageSizes
    \/ callUpdatePagePositions
    \/ callAbstractUpdatePagePositions
    \/ \E sz \in Sizes : setSize(sz)

Next == CollectionNext \/ ParameterNext \/ FitNext \/ UpdateNext

Spec == Init /\ [][Next]_vars

\* ------------------------------------------------- recomputing a layout
\* A layout that was constructed, given an orientation (a PageLayout) and
\* pages, and on which update() either was not called yet or has just
\* returned.
UpdateInit ==
    /\ layoutClass \in {AbstractPageLayout, PageLayout}
    /\ floatAsInt \in {"truncate", "TypeError"}
    /\ orientation \in IF layoutClass = PageLayout THEN {Vertical, Horizontal} ELSE {None}
    /\ pages \in PageLists
    /\ margin = DefaultMargin
    /\ spacing = DefaultSpacing
    /\ zoomFactor = <<1, 1>>
    /\ scale = <<1, 1>>
    /\ dpi = <<72, 72>>
    /\ rotation = 0
    /\ netInserted = [pure |-> TRUE, n |-> Len(pages)]
    /\ nops = 0
    /\ \/ /\ rect = [p \in Pages |-> QRectNull]
          /\ size = QSizeNull
          /\ last = Returned("extend", <<pages>>, None)
          /\ sinceUpdate = "never"
          /\ sinceBefore = "never"
       \/ /\ ~positionsRaise
          /\ rect = updatePagePositions(updatePageSizes([p \in Pages |-> QRectNull]))
          /\ size = computedSize(rect)
          /\ last = Returned("update", <<>>, sizeChanged(QSizeNull, size))
          /\ sinceUpdate = "same"
          /\ sinceBefore = "never"

\* The calls that recompute the layout, and those that set a parameter.
RecomputeNext == UpdateNext \/ ParameterNext

SpecRecompute == UpdateInit /\ [][RecomputeNext]_vars

\* ================================================================ the claims
\* The step just taken was a call of op (every call counts in nops).
Did(op) == nops' = nops + 1 /\ last'.op = op
NoDuplicates == \A i, j \in 1 .. Len(pages) : pages[i] = pages[j] => i = j
RECURSIVE SumHeights(_)
SumHeights(n) == IF n = 0 THEN 0 ELSE SumHeights(n - 1) + QRectHeight(rect[pages[n]]) + spacing
StackedAt(i) == margin + SumHeights(i - 1)

\* C1 as stated: after update() returned on a Vertical PageLayout, the page at
\* index i has the vertical position margin + the sum over j < i of
\* (height j + spacing).
C1_AsStated ==
    (last.op = "update" /\ last.ok /\ orientation = Vertical)
        => \A i \in 1 .. Len(pages) : rect[pages[i]].y1 = StackedAt(i)

\* C1 amended: the same, for a collection in which no page occurs twice (a
\* page that occurs twice has one position, that of its last occurrence).
C1_VerticalOffsets ==
    (last.op = "update" /\ last.ok /\ orientation = Vertical /\ NoDuplicates)
        => \A i \in 1 .. Len(pages) : rect[pages[i]].y1 = StackedAt(i)

\* The spec's scenario: heights 200, 150, 100 with margin 4 and spacing 8 are
\* placed at 4, 212 and 370.
C1_Witness ==
    /\ last.op = "update" /\ last.ok /\ orientation = Vertical
    /\ pages = <<"p1", "p2", "p3">> /\ margin = 4 /\ spacing = 8
    /\ QRectHeight(rect["p1"]) = 200 /\ QRectHeight(rect["p2"]) = 150
    /\ QRectHeight(rect["p3"]) = 100
    /\ rect["p1"].y1 = 4 /\ rect["p2"].y1 = 212 /\ rect["p3"].y1 = 370

\* The rects of the pages of the collection that cover at least one pixel.
CoveringRects ==
    {rect[pages[i]] : i \in {j \in 1 .. Len(pages) :
        QRectWidth(rect[pages[j]]) > 0 /\ QRectHeight(rect[pages[j]]) > 0}}
SetMin(S) == CHOOSE x \in S : \A y \in S : x <= y
SetMax(S) == CHOOSE x \in S : \A y \in S : x >= y
BoundingSize ==
    IF CoveringRects = {} THEN <<0, 0>>
    ELSE <<SetMax({r.x2 : r \in CoveringRects}) - SetMin({r.x1 : r \in CoveringRects}) + 1,
           SetMax({r.y2 : r \in CoveringRects}) - SetMin({r.y1 : r \in CoveringRects}) + 1>>

\* C2: after update() or computeSize() returned, size() is the size of the
\* bounding rectangle of all page rects plus the margin on each of the four
\* sides, and <<2 * margin, 2 * margin>> for a layout without pages.
C2_SizeIsBoundsPlusMargin ==
    (last.op \in {"update", "computeSize"} /\ last.ok)
        => /\ size = <<BoundingSize[1] + 2 * margin, BoundingSize[2] + 2 * margin>>
           /\ Len(pages) = 0 => size = <<2 * margin, 2 * margin>>

C2_Witness ==
    /\ last.op = "update" /\ last.ok /\ margin = 4
    /\ Len(pages) = 2 /\ pages[1] # pages[2]
    /\ size[1] > 2 * margin /\ size[2] > QRectHeight(rect[pages[1]]) + 2 * margin

\* C3 as stated: computeSize() (and so update()) returns true exactly when
\* the size it stores differs from the size stored before the call; an
\* update() that follows a returning update() with no change to the pages or
\* to a layout parameter in between returns false; the first update() of a
\* layout whose size is unset returns true. The stored size is taken to be
\* written by computeSize() alone: where setSize() changed it in between,
\* nothing is stated.
C3_AsStated ==
    [][ /\ ((Did("update") \/ Did("computeSize")) /\ last'.ok)
            => (last'.ret <=> size' # size)
        /\ (Did("update") /\ last'.ok /\ sinceUpdate \in {"same", "rects", "size"})
            => last'.ret = FALSE
        /\ (Did("update") /\ last'.ok /\ size = QSizeNull /\ margin >= 0)
            => last'.ret = TRUE ]_vars

\* C3 amended: the same, where no call in between changed the stored size
\* either (computeSize() after page rects were moved, or setSize()); calls in
\* between that change page rects alone do not matter.
C3_ChangedFlag ==
    [][ /\ ((Did("update") \/ Did("computeSize")) /\ last'.ok)
            => (last'.ret <=> size' # size)
        /\ (Did("update") /\ last'.ok /\ sinceUpdate \in {"same", "rects"})
            => last'.ret = FALSE
        /\ (Did("update") /\ last'.ok /\ size = QSizeNull /\ margin >= 0)
            => last'.ret = TRUE ]_vars

\* An update() on a Horizontal PageLayout with two pages returned false: since
\* update() had returned before, page rects were changed, but neither the
\* pages, a layout parameter nor the stored size.
C3_Witness ==
    /\ last.op = "update" /\ last.ok /\ last.ret = FALSE /\ sinceBefore = "rects"
    /\ layoutClass = PageLayout /\ orientation = Horizontal
    /\ pages = <<"p1", "p2">> /\ size = <<266, 208>>

FracMin(a, b) == IF a[1] * b[2] <= b[1] * a[2] THEN a ELSE b

\* C4: on a layout with pages, fit(size, FitWidth | FitHeight) sets the zoom
\* factor to the smaller of the factors that fit(size, FitWidth) and
\* fit(size, FitHeight) would set from the same state, which are the widest
\* page's zoomForWidth(width - 2 * margin) and the highest page's
\* zoomForHeight(height - 2 * margin).
C4_FitBothIsMin ==
    [][ (Did("fit") /\ last'.args[2] = FitWidth + FitHeight /\ Len(pages) > 0)
            => LET sz == last'.args[1]
               IN /\ zoomFactor' = FracMin(fitZoomFactor(sz, FitWidth),
                                           fitZoomFactor(sz, FitHeight))
                  /\ zoomFactor' = FracMin(
                        zoomForWidth(widestPage, sz[1] - 2 * margin),
                        zoomForHeight(highestPage, sz[2] - 2 * margin)) ]_vars

\* fit() with both modes took the height's factor, the smaller of the two.
C4_Witness ==
    /\ last.op = "fit" /\ last.args[2] = FitWidth + FitHeight /\ Len(pages) > 1
    /\ LET sz == last.args[1]
       IN /\ zoomFactor = zoomFitHeight(sz[2])
          /\ FracLess(zoomFitHeight(sz[2]), zoomFitWidth(sz[1]))

\* The effective width and height of a page in the layout, as C5 states them.
EffectiveWidth(p) ==
    IF (pageRotation(p) + rotation) % 2 = 1
    THEN pageSizeF(p)[2] * pageScale(p)[2] ELSE pageSizeF(p)[1] * pageScale(p)[1]
EffectiveHeight(p) ==
    IF (pageRotation(p) + rotation) % 2 = 1
    THEN pageSizeF(p)[1] * pageScale(p)[1] ELSE pageSizeF(p)[2] * pageScale(p)[2]
InCollection(p) == \E i \in 1 .. Len(pages) : pages[i] = p

\* C5: widestPage() and highestPage() return None for a layout without pages,
\* and else a page of the collection whose effective width (height) is at
\* least that of every page of the collection.
C5_ExtremalPages ==
    /\ last.op = "widestPage" =>
          IF Len(pages) = 0 THEN last.ret = None
          ELSE /\ InCollection(last.ret)
               /\ \A i \in 1 .. Len(pages) :
                     EffectiveWidth(last.ret) >= EffectiveWidth(pages[i])
    /\ last.op = "highestPage" =>
          IF Len(pages) = 0 THEN last.ret = None
          ELSE /\ InCollection(last.ret)
               /\ \A i \in 1 .. Len(pages) :
                     EffectiveHeight(last.ret) >= EffectiveHeight(pages[i])

\* In a layout turned by a quarter, the widest page is the one on its side.
C5_Witness ==
    /\ last.op = "widestPage" /\ last.ret = "p1" /\ rotation = 1
    /\ pages = <<"p1", "p2">>

\* C6: from the empty layout, under append, insert and successful remove
\* alone, count() is the number of appends and inserts minus the number of
\* removes; append adds the page at the end, insert puts it in at the index
\* and shifts the later pages, remove takes out the first occurrence, and
\* each keeps the order of the other pages.
C6_ListLikeOrder ==
    [][ /\ netInserted'.pure => Len(pages') = netInserted'.n
        /\ Did("append") =>
              /\ Len(pages') = Len(pages) + 1
              /\ pages'[Len(pages')] = last'.args[1]
              /\ \A i \in 1 .. Len(pages) : pages'[i] = pages[i]
        /\ Did("insert") =>
              /\ Len(pages') = Len(pages) + 1
              /\ \E k \in 1 .. Len(pages') :
                    /\ pages'[k] = last'.args[2]
                    /\ last'.args[1] \in 0 .. Len(pages) => k = last'.args[1] + 1
                    /\ \A i \in 1 .. Len(pages) :
                          pages'[IF i < k THEN i ELSE i + 1] = pages[i]
        /\ (Did("remove") /\ last'.ok) =>
              /\ Len(pages') = Len(pages) - 1
              /\ \E k \in 1 .. Len(pages) :
                    /\ pages[k] = last'.args[1]
                    /\ \A i \in 1 .. k - 1 : pages[i] # last'.args[1]
                    /\ \A i \in 1 .. Len(pages') :
                          pages'[i] = pages[IF i < k THEN i ELSE i + 1] ]_vars

\* remove(p1) took the first of two p1 out of <<p1, p2, p1>>.
C6_Witness ==
    /\ last.op = "remove" /\ last.ok /\ last.args = <<"p1">>
    /\ netInserted.pure /\ netInserted.n = 2
    /\ pages = <<"p2", "p1">>

\* C7 as stated: pop() without an index on a layout with pages returns the
\* last page and leaves the others in their order; pop(i) with a valid index
\* does so for the page at index i.
C7_PopAsStated ==
    [][ (Did("pop") /\ Len(pages) > 0) =>
           IF last'.args = <<>>
           THEN /\ last'.ok
                /\ last'.ret = pages[Len(pages)]
                /\ pages' = SubSeq(pages, 1, Len(pages) - 1)
           ELSE last'.args[1] \in 0 .. Len(pages) - 1 =>
                /\ last'.ok
                /\ last'.ret = pages[last'.args[1] + 1]
                /\ Len(pages') = Len(pages) - 1
                /\ \A i \in 1 .. Len(pages') :
                      pages'[i] = pages[IF i <= last'.args[1] THEN i ELSE i + 1] ]_vars

\* C8 as stated: setDpi(d) completes, dpi() then returns d, and nothing else
\* of the layout changes.
C8_SetDpiAsStated ==
    [][ Did("setDpi") =>
           /\ last'.ok
           /\ dpi' = last'.args[1]
           /\ UNCHANGED <<margin, spacing, zoomFactor, scale, rotation, pages, size>> ]_vars

\* x \div 2 is the floor of x / 2 for every integer x.
FloorHalf(x) == x \div 2
SetMax0(S) == IF S = {} THEN 0 ELSE SetMax(S)
\* C9 as stated: PageLayout.updatePagePositions() puts every page at the
\* floor of (extent - page extent) / 2 across the stacking axis, the extent
\* being the largest page extent (0 without pages) + 2 * margin.
C9_CenteredAsStated ==
    (layoutClass = PageLayout /\ last.op \in {"update", "updatePagePositions"}) =>
        LET ws == {QRectWidth(rect[pages[i]]) : i \in 1 .. Len(pages)}
            hs == {QRectHeight(rect[pages[i]]) : i \in 1 .. Len(pages)}
        IN \A i \in 1 .. Len(pages) :
              IF orientation = Vertical
              THEN rect[pages[i]].x1 =
                      FloorHalf(SetMax0(ws) + 2 * margin - QRectWidth(rect[pages[i]]))
              ELSE rect[pages[i]].y1 =
                      FloorHalf(SetMax0(hs) + 2 * margin - QRectHeight(rect[pages[i]]))

PagesPositive ==
    \A i \in 1 .. Len(pages) :
        QRectWidth(rect[pages[i]]) > 0 /\ QRectHeight(rect[pages[i]]) > 0
InsideWithMargin(r) ==
    /\ r.x1 >= margin /\ r.y1 >= margin
    /\ r.x2 + 1 + margin <= size[1] /\ r.y2 + 1 + margin <= size[2]
StackedApart ==
    \A i, j \in 1 .. Len(pages) :
        i < j => IF orientation = Vertical
                 THEN rect[pages[i]].y2 < rect[pages[j]].y1
                 ELSE rect[pages[i]].x2 < rect[pages[j]].x1
C10_Case ==
    /\ layoutClass = PageLayout /\ last.op = "update" /\ last.ok /\ Len(pages) > 0
    /\ margin >= 0 /\ spacing >= 0 /\ PagesPositive

\* C10 as stated: after update() returned on a PageLayout with pages, every
\* page rect lies inside the layout's size at least margin away from its
\* edges, and the rects follow each other along the stacking axis without
\* overlap.
C10_AsStated ==
    C10_Case => /\ \A i \in 1 .. Len(pages) : InsideWithMargin(rect[pages[i]])
                /\ StackedApart

\* C10 amended: the same, for a collection in which no page occurs twice.
C10_InsideAndApart ==
    (C10_Case /\ NoDuplicates)
        => /\ \A i \in 1 .. Len(pages) : InsideWithMargin(rect[pages[i]])
           /\ StackedApart

\* A Horizontal layout of two pages of different heights after update().
C10_Witness ==
    /\ C10_Case /\ NoDuplicates /\ orientation = Horizontal /\ Len(pages) = 2
    /\ QRectHeight(rect[pages[1]]) # QRectHeight(rect[pages[2]])
====
